---- MODULE Spec2Model ----
(***************************************************************************)
(* Query dispatch of the ArborX bounding volume hierarchy                  *)
(* (src/details/ArborX_DetailsBoundingVolumeHierarchyImpl.hpp) and the     *)
(* aggregating post callback of the distributed ray tracing example.      *)
(*                                                                         *)
(* Geometry is one-dimensional: a primitive is a unit box at an integer    *)
(* coordinate, a spatial predicate is a segment [lo, hi] that intersects   *)
(* the boxes whose coordinate lies in it, a nearest predicate is a point q *)
(* with a neighbour count k.  Views are sequences; index i of the code is  *)
(* position i + 1 of the sequence, and an offset keeps the code's value    *)
(* (a 0-based position of the values view).                                *)
(***************************************************************************)
EXTENDS Integers, Sequences, FiniteSets, TLC

\* ------------------------------------------------------------------ bounds
MaxPrims == 2
MaxCoord == 2
MaxQueries == 2
MaxK == 2
MaxBuf == 1
MaxBoxes == 3
MaxRanks == 2
MaxSorted == 3

\* ------------------------------------------------------- program constants
\* kappa, the radiative absorption coefficient
Kappa == 10

Coord == 1..MaxCoord
Inf == MaxCoord + MaxPrims + 10
Uninit == [uninit |-> TRUE]

\* ------------------------------------------------------------------ helpers
abs(x) == IF x < 0 THEN -x ELSE x

RECURSIVE SumTo(_, _)
SumTo(s, i) == IF i = 0 THEN 0 ELSE s[i] + SumTo(s, i - 1)

\* exclusivePrefixSum(space, v): v(i) becomes v(0) + ... + v(i-1), in place,
\* the last entry becoming the total of the entries before it
exclusivePrefixSum(v) == [i \in 1..Len(v) |-> SumTo(v, i - 1)]

\* lastElement(v)
lastElement(v) == v[Len(v)]

\* reallocWithoutInitializing(v, n): n entries of unspecified content
reallocWithoutInitializing(n) == [i \in 1..n |-> Uninit]

\* the boxes of the grid, one per cell, listed in ascending order
IsSortedSeq(s) == \A i \in 1..(Len(s) - 1) : s[i] < s[i + 1]

Range(s) == {s[i] : i \in 1..Len(s)}

Perms(n) == {f \in [1..n -> 1..n] : \A i, j \in 1..n : f[i] = f[j] => i = j}

RECURSIVE SetToSeq(_)
\* the elements of a set of integers in ascending order
SetToSeq(S) ==
  IF S = {} THEN <<>>
  ELSE LET m == CHOOSE x \in S : \A y \in S : x <= y
       IN <<m>> \o SetToSeq(S \ {m})

\* ------------------------------------------------------------------ inputs
\* the primitives of the tree, by index, as the coordinates of distinct boxes
Trees == {t \in UNION {[1..m -> Coord] : m \in 0..MaxPrims} : IsSortedSeq(t)}

SpatialPredicate == {g \in [lo : Coord, hi : Coord] : g.lo <= g.hi}
NearestPredicate == [q : Coord, k : 1..MaxK]

Batches(P) == UNION {[1..n -> P] : n \in 0..MaxQueries}

StackBased_Default == "StackBased_Default"
PriorityQueueBased_Deprecated == "PriorityQueueBased_Deprecated"

\* Experimental::TraversalPolicy
TraversalPolicy ==
  [_buffer_size : (-MaxBuf)..MaxBuf,
   _sort_predicates : BOOLEAN,
   _traversal_algorithm : {StackBased_Default, PriorityQueueBased_Deprecated}]

\* the policies of the calls on spatial predicates: the traversal algorithm
\* is a choice between two nearest traversals and is left at its default
SpatialPolicies ==
  {pol \in TraversalPolicy : pol._traversal_algorithm = StackBased_Default}

\* the policies of the calls on nearest predicates: the nearest dispatch does
\* not read _buffer_size, which is left at its default
NearestPolicies == {pol \in TraversalPolicy : pol._buffer_size = 0}

\* ---------------------------------------------------------------- callbacks
InlineCallbackTag == "InlineCallbackTag"
PostCallbackTag == "PostCallbackTag"

CallbackDefaultSpatialPredicate ==
  [tag |-> InlineCallbackTag, name |-> "CallbackDefaultSpatialPredicate", valid |-> TRUE]
CallbackDefaultNearestPredicate ==
  [tag |-> InlineCallbackTag, name |-> "CallbackDefaultNearestPredicate", valid |-> TRUE]
CallbackDefaultNearestPredicateWithDistance ==
  [tag |-> InlineCallbackTag, name |-> "CallbackDefaultNearestPredicateWithDistance",
   valid |-> TRUE]

\* the callbacks a caller passes: the two of the ray tracing example on spatial
\* predicates, the pair collector and a pair-splitting post callback on nearest
\* predicates; valid tells whether the callback's signature fits the
\* predicates and the output view
SpatialCallbacks ==
  [tag : {InlineCallbackTag}, name : {"AccumulateRaySphereIntersections"},
        valid : BOOLEAN]
  \cup [tag : {PostCallbackTag}, name : {"AccumulateRayRankIntersections"},
        valid : BOOLEAN]
NearestCallbacks ==
  [tag : {InlineCallbackTag}, name : {"CallbackDefaultNearestPredicateWithDistance"},
        valid : BOOLEAN]
  \cup [tag : {PostCallbackTag}, name : {"SplitPairs"}, valid : BOOLEAN]

SpatialPredicateTag == "SpatialPredicateTag"
NearestPredicateTag == "NearestPredicateTag"

\* Access::get(predicates, i): the predicate with its index attached
Get(preds, i) == [geometry |-> preds[i], data |-> i]

\* overlapDistance(ray, box, length, entrylength)
overlapDistance(ray, box) == [length |-> 1, entrylength |-> box - ray.lo]

distance(q, box) == abs(box - q)

\* AccumulateRaySphereIntersections::operator(): one IntersectedCell a match
AccumulateRaySphereIntersections(tree, pr, primitive_index) ==
  LET d == overlapDistance(pr.geometry, tree[primitive_index])
  IN [entrylength |-> d.entrylength,
      optical_path_length |-> Kappa * d.length,
      cell_id |-> primitive_index,
      ray_id |-> pr.data]

\* what the inline callback cb hands to its output functor for one match
Insert(cb, tree, pr, primitive_index) ==
  CASE cb.name = "AccumulateRaySphereIntersections" ->
         AccumulateRaySphereIntersections(tree, pr, primitive_index)
    [] cb.name = "CallbackDefaultNearestPredicateWithDistance" ->
         [index |-> primitive_index,
          distance |-> distance(pr.geometry.q, tree[primitive_index])]
    [] OTHER -> [index |-> primitive_index]

\* ---------------------------------------------------------------- traversal
\* the primitives a spatial predicate intersects
Intersected(tree, g) == {p \in 1..Len(tree) : g.lo <= tree[p] /\ tree[p] <= g.hi}

RECURSIVE InsertNearest(_, _, _, _, _)
\* nearest traversal: primitives p..Len(tree) are still to visit, heap holds
\* the (at most k) closest seen so far in order of distance; a primitive
\* enters a full heap only when strictly closer than the farthest kept
InsertNearest(tree, q, k, p, heap) ==
  IF p > Len(tree) THEN heap
  ELSE LET d == distance(q, tree[p])
           closer == {i \in 1..Len(heap) : distance(q, tree[heap[i]]) <= d}
           at == Cardinality(closer)
           grown == SubSeq(heap, 1, at) \o <<p>> \o SubSeq(heap, at + 1, Len(heap))
           next == IF Len(grown) > k THEN SubSeq(grown, 1, k) ELSE grown
       IN InsertNearest(tree, q, k, p + 1, next)

\* traverse(space, bvh, predicates, callback) for one predicate: the
\* primitives the callback is called with, in the order of the calls
Visited(tag, tree, pr) ==
  IF tag = SpatialPredicateTag
  THEN SetToSeq(Intersected(tree, pr.geometry))
  ELSE InsertNearest(tree, pr.geometry.q, pr.geometry.k, 1, <<>>)

\* the values one predicate's traversal inserts
Emitted(tag, cb, tree, pr) ==
  LET v == Visited(tag, tree, pr)
  IN [c \in 1..Len(v) |-> Insert(cb, tree, pr, v[c])]

\* -------------------------------------------------------------------- state
VARIABLES
  pc,          \* where the dispatch call stands
  tag,         \* predicate kind of the batch
  bvh,         \* the tree's primitives
  predicates,  \* the batch, as passed by the caller
  callback,    \* the caller's callback
  policy,      \* the caller's TraversalPolicy
  offset,      \* the caller's offset view
  out,         \* the caller's output view
  indices,     \* the local view of a post dispatch (indices / pairs)
  permute,     \* the local permutation of a sorted dispatch
  counts,      \* queryImpl's per-predicate counts
  err,         \* the failure the call ended in
  trace,       \* the work done so far, in order
  received     \* the arguments of each invocation of the post callback

\* the distributed query of the ray tracing example, one entry per rank
VARIABLES
  world,              \* num_boxes, nranks and the rays of the run
  stage,              \* the stage of the distributed query each rank is in
  completed,          \* the stages each rank has completed
  warnings,           \* the ranks that printed the indivisibility warning
  network,            \* the messages in flight
  imported,           \* the batches of foreign queries each rank has received
  partial,            \* the partial results each rank computed, one a foreign query
  arrived,            \* the partial results returned to each rank, in arrival order
  offsets,            \* the offsets view of each rank's distributed query
  values,             \* the values view of each rank's distributed query
  merge_permutation,  \* the permutation of each rank's sort of the values
  applied             \* the partial results each rank's accumulation visited, a query

\* a sort of a CSR table of sort keys on its own
VARIABLES
  sorter              \* the table, its sort keys and the permutation of the sort

dispatch_vars == <<pc, tag, bvh, predicates, callback, policy, offset, out, indices,
                   permute, counts, err, trace, received>>

protocol_vars == <<world, stage, completed, warnings, network, imported, partial,
                   arrived, offsets, values, merge_permutation, applied>>

vars == <<dispatch_vars, protocol_vars, sorter>>

n_queries == Len(predicates)

IsPost == callback.tag = PostCallbackTag

\* the inline callback the traversal runs with: the caller's, or the default
\* collector a post dispatch passes down
Inner ==
  IF ~IsPost THEN callback
  ELSE IF tag = SpatialPredicateTag THEN CallbackDefaultSpatialPredicate
  ELSE CallbackDefaultNearestPredicateWithDistance

\* the output view the inline dispatch fills
Target == IF IsPost THEN indices ELSE out

SetTarget(v) ==
  IF IsPost THEN indices' = v /\ UNCHANGED out ELSE out' = v /\ UNCHANGED indices

\* no dispatch call is under way
NoCall ==
  /\ pc = "idle"
  /\ tag = SpatialPredicateTag
  /\ bvh = <<>>
  /\ predicates = <<>>
  /\ callback = CallbackDefaultSpatialPredicate
  /\ policy = [_buffer_size |-> 0, _sort_predicates |-> TRUE,
               _traversal_algorithm |-> StackBased_Default]
  /\ offset = <<>>
  /\ out = <<>>
  /\ indices = <<>>
  /\ permute = <<>>
  /\ counts = <<>>
  /\ err = "none"
  /\ trace = <<>>
  /\ received = <<>>

\* no distributed query is under way
NoRun ==
  /\ world = [num_boxes |-> 0, nranks |-> 0, rays |-> <<>>]
  /\ stage = <<>>
  /\ completed = <<>>
  /\ warnings = {}
  /\ network = {}
  /\ imported = <<>>
  /\ partial = <<>>
  /\ arrived = <<>>
  /\ offsets = <<>>
  /\ values = <<>>
  /\ merge_permutation = <<>>
  /\ applied = <<>>

\* no sort is under way
NoSort == sorter = [phase |-> "none"]

Init == NoCall /\ NoRun /\ NoSort

\* ----------------------------------------------------------------- dispatch
\* bvh.query(space, predicates, callback, out, offset, policy)
Query(t, tree, preds, cb, pol) ==
  /\ pc = "idle"
  /\ tag' = t
  /\ bvh' = tree
  /\ predicates' = preds
  /\ callback' = cb
  /\ policy' = pol
  /\ pc' = IF cb.tag = PostCallbackTag THEN "post" ELSE "check"
  /\ UNCHANGED <<offset, out, indices, permute, counts, err, trace, received>>

\* queryDispatch(..., PostCallbackTag): the local view, then the inline
\* dispatch with the default callback
queryDispatchPost ==
  /\ pc = "post"
  /\ UNCHANGED <<protocol_vars, sorter>>
  /\ indices' = <<>>
  /\ pc' = "check"
  /\ UNCHANGED <<tag, bvh, predicates, callback, policy, offset, out, permute,
                 counts, err, trace, received>>

\* check_valid_callback(callback, predicates, out), first statement of the
\* inline dispatch
check_valid_callback ==
  /\ pc = "check"
  /\ UNCHANGED <<protocol_vars, sorter>>
  /\ IF Inner.valid
     THEN pc' = "alloc" /\ err' = err
     ELSE pc' = "failed" /\ err' = "InvalidCallback"
  /\ trace' = Append(trace, "check")
  /\ UNCHANGED <<tag, bvh, predicates, callback, policy, offset, out, indices,
                 permute, counts, received>>

\* mutant: an inclusive prefix sum, every slice one capacity too far
SpatialOffset_Inclusive(n, buffer_size) ==
  [i \in 1..(n + 1) |-> IF buffer_size > 0 THEN i * buffer_size ELSE 0]

\* mutant: the prefix sum over the prefilled capacities is left out
SpatialOffset_NoPrefixSum(n, buffer_size) == [i \in 1..(n + 1) |-> buffer_size]

\* spatial: Kokkos::deep_copy(offset, buffer_size); exclusivePrefixSum(offset)
\* or Kokkos::deep_copy(offset, 0)
SpatialOffset(n, buffer_size) ==
  IF buffer_size > 0
  THEN exclusivePrefixSum([i \in 1..(n + 1) |-> buffer_size])
  ELSE [i \in 1..(n + 1) |-> 0]

\* mutant: the prefix sum over the requested counts is left out
NearestOffset_NoPrefixSum(preds) ==
  [i \in 1..(Len(preds) + 1) |-> IF i <= Len(preds) THEN preds[i].k ELSE 0]

\* mutant: one slot a query instead of getK(predicate)
NearestOffset_OneEach(preds) ==
  exclusivePrefixSum([i \in 1..(Len(preds) + 1) |-> 1])

\* nearest: offset(i) = getK(predicate i); exclusivePrefixSum(offset)
NearestOffset(preds) ==
  exclusivePrefixSum([i \in 1..(Len(preds) + 1) |->
                        IF i <= Len(preds) THEN preds[i].k ELSE 0])

\* the sizing of offset and out before the traversal
Allocate ==
  /\ pc = "alloc"
  /\ UNCHANGED <<protocol_vars, sorter>>
  /\ IF tag = SpatialPredicateTag
     THEN LET buffer_size == abs(policy._buffer_size)
          IN /\ offset' = SpatialOffset(n_queries, buffer_size)
             /\ IF buffer_size > 0
                THEN SetTarget(reallocWithoutInitializing(n_queries * buffer_size))
                ELSE UNCHANGED <<out, indices>>
     ELSE /\ offset' = NearestOffset(predicates)
          /\ SetTarget(reallocWithoutInitializing(lastElement(offset')))
  /\ pc' = "sort"
  /\ trace' = Append(trace, "alloc")
  /\ UNCHANGED <<tag, bvh, predicates, callback, policy, permute, counts, err,
                 received>>

\* whether the dispatch sorts: policy._sort_predicates for spatial predicates,
\* policy._sort_predicates && false for nearest predicates
SortsPredicates ==
  IF tag = SpatialPredicateTag
  THEN policy._sort_predicates
  ELSE policy._sort_predicates /\ FALSE

\* mutant: the magnitude handed down negated, the sign of the policy value lost
BufferArgument_Hard ==
  IF tag = SpatialPredicateTag THEN -abs(policy._buffer_size) ELSE -1

\* mutant: the magnitude computed for the sizing handed down instead of the
\* signed policy value
BufferArgument_Magnitude ==
  IF tag = SpatialPredicateTag THEN abs(policy._buffer_size) ELSE -1

\* the buffer_size the dispatch hands to queryImpl
BufferArgument ==
  IF tag = SpatialPredicateTag THEN policy._buffer_size ELSE -1

\* position of a predicate on the space-filling curve
CurveKey(g) == IF tag = SpatialPredicateTag THEN g.lo + g.hi ELSE g.q

\* BatchedQueries::sortQueriesAlongZOrderCurve: the orders a sort by curve
\* key can leave the predicate indices in
sortQueriesAlongZOrderCurve(preds) ==
  {f \in Perms(Len(preds)) :
     \A i \in 1..(Len(preds) - 1) : CurveKey(preds[f[i]]) <= CurveKey(preds[f[i + 1]])}

\* mutant: the added entry points at the first offset
ExtendPermutation_ToFirst(perm) == Append(perm, 1)

\* Kokkos::resize(permute, size + 1); permute(size) = size
ExtendPermutation(perm) == Append(perm, Len(perm) + 1)

\* lines 141-152: the permutation, or none
SortPredicates ==
  /\ pc = "sort"
  /\ UNCHANGED <<protocol_vars, sorter>>
  /\ IF SortsPredicates
     THEN \E perm \in sortQueriesAlongZOrderCurve(predicates) :
            permute' = ExtendPermutation(perm)
     ELSE permute' = <<>>
  /\ pc' = "first_pass"
  /\ trace' = IF SortsPredicates THEN Append(trace, "sort") ELSE trace
  /\ UNCHANGED <<tag, bvh, predicates, callback, policy, offset, out, indices,
                 counts, err, received>>

\* makePermutedView(permute, offset): entry p of the view handed to queryImpl
\* is entry OffsetIndex(p) of offset
OffsetIndex(p) == IF SortsPredicates THEN permute[p] ELSE p

\* BatchedQueries::applyPermutation: predicate p of the batch handed to
\* queryImpl, with the index it was given by Access::get
Permuted(p) == Get(predicates, OffsetIndex(p))

\* ---------------------------------------------------------------- queryImpl
Values(p) == Emitted(tag, Inner, bvh, Permuted(p))

\* the slots predicate p owns in the output view
Capacity(off, p) == off[OffsetIndex(p) + 1] - off[OffsetIndex(p)]

\* v with vals written from position base on, at most cap of them
WriteSlots(v, base, vals, cap) ==
  [x \in 1..Len(v) |->
     IF x > base /\ x - base <= Len(vals) /\ x - base <= cap
     THEN vals[x - base] ELSE v[x]]

RECURSIVE WritePass(_, _, _, _)
\* the writes of predicates p..n_queries into v; bounded tells whether an
\* insertion beyond the predicate's capacity is dropped
WritePass(v, off, p, bounded) ==
  IF p > n_queries THEN v
  ELSE LET vals == Values(p)
           cap == IF bounded THEN Capacity(off, p) ELSE Len(vals)
       IN WritePass(WriteSlots(v, off[OffsetIndex(p)], vals, cap), off, p + 1, bounded)

\* first traversal: the optimistic attempt into the preallocated slots, or
\* the counting pass
FirstPass ==
  /\ pc = "first_pass"
  /\ UNCHANGED <<protocol_vars, sorter>>
  /\ counts' = [p \in 1..n_queries |-> Len(Values(p))]
  /\ IF BufferArgument # 0
     THEN /\ SetTarget(WritePass(Target, offset, 1, TRUE))
          /\ trace' = Append(trace, "traverse_optimistic")
     ELSE /\ UNCHANGED <<out, indices>>
          /\ trace' = Append(trace, "traverse_count")
  /\ pc' = "postprocess"
  /\ UNCHANGED <<tag, bvh, predicates, callback, policy, offset, permute, err,
                 received>>

Overflow == \E p \in 1..n_queries : counts[p] > Capacity(offset, p)

\* the counts copied into offset through the view, then exclusivePrefixSum
CountsToOffset ==
  exclusivePrefixSum(
    [x \in 1..Len(offset) |->
       IF \E p \in 1..n_queries : OffsetIndex(p) = x
       THEN counts[CHOOSE p \in 1..n_queries : OffsetIndex(p) = x]
       ELSE offset[x]])

\* lastElement of the view handed to queryImpl
n_results(off) == off[OffsetIndex(n_queries + 1)]

\* the compacted output: each predicate's results moved from its preallocated
\* slots to its final slots
Compress(v, old, new) ==
  [x \in 1..n_results(new) |->
     LET i == CHOOSE j \in 1..n_queries : new[j] < x /\ x <= new[j + 1]
     IN v[old[i] + (x - new[i])]]

\* negative buffer_size and some predicate overflows its slots
ThrowCapacityExceeded ==
  /\ pc = "postprocess"
  /\ UNCHANGED <<protocol_vars, sorter>>
  /\ BufferArgument < 0
  /\ Overflow
  /\ err' = "CapacityExceeded"
  /\ pc' = "failed"
  /\ trace' = Append(trace, "throw")
  /\ UNCHANGED <<tag, bvh, predicates, callback, policy, offset, out, indices,
                 permute, counts, received>>

\* positive buffer_size and some predicate overflows: the attempt is dropped
\* and the counting pass run
Recount ==
  /\ pc = "postprocess"
  /\ UNCHANGED <<protocol_vars, sorter>>
  /\ BufferArgument > 0
  /\ Overflow
  /\ offset' = CountsToOffset
  /\ SetTarget(reallocWithoutInitializing(n_results(offset')))
  /\ pc' = "second_pass"
  /\ trace' = Append(trace, "traverse_count")
  /\ UNCHANGED <<tag, bvh, predicates, callback, policy, permute, counts, err,
                 received>>

\* buffer_size zero: the counting pass is done, the output is sized exactly
Counted ==
  /\ pc = "postprocess"
  /\ UNCHANGED <<protocol_vars, sorter>>
  /\ BufferArgument = 0
  /\ offset' = CountsToOffset
  /\ IF n_results(offset') = 0
     THEN SetTarget(<<>>) /\ pc' = "return"
     ELSE SetTarget(reallocWithoutInitializing(n_results(offset'))) /\ pc' = "second_pass"
  /\ UNCHANGED <<tag, bvh, predicates, callback, policy, permute, counts, err,
                 trace, received>>

\* the optimistic attempt held every result: offsets from the counts, the
\* output compacted when slots were left unused
Fits ==
  /\ pc = "postprocess"
  /\ UNCHANGED <<protocol_vars, sorter>>
  /\ BufferArgument # 0
  /\ ~Overflow
  /\ offset' = CountsToOffset
  /\ IF n_results(offset') < Len(Target)
     THEN /\ SetTarget(Compress(Target, offset, offset'))
          /\ trace' = Append(trace, "compress")
     ELSE /\ UNCHANGED <<out, indices>>
          /\ trace' = trace
  /\ pc' = "return"
  /\ UNCHANGED <<tag, bvh, predicates, callback, policy, permute, counts, err,
                 received>>

\* second traversal: every result written at its final slot
SecondPass ==
  /\ pc = "second_pass"
  /\ UNCHANGED <<protocol_vars, sorter>>
  /\ SetTarget(WritePass(Target, offset, 1, FALSE))
  /\ pc' = "return"
  /\ trace' = Append(trace, "traverse_write")
  /\ UNCHANGED <<tag, bvh, predicates, callback, policy, offset, permute, counts,
                 err, received>>

\* the inline dispatch returns to its caller
Return ==
  /\ pc = "return"
  /\ UNCHANGED <<protocol_vars, sorter>>
  /\ ~IsPost
  /\ pc' = "done"
  /\ UNCHANGED <<tag, bvh, predicates, callback, policy, offset, out, indices,
                 permute, counts, err, trace, received>>

\* ----------------------------------------------------------- post callbacks
\* the query whose slice holds position x of the raw table
SliceOf(off, x) == CHOOSE i \in 1..(Len(off) - 1) : off[i] < x /\ x <= off[i + 1]

\* first loop of AccumulateRayRankIntersections: sort_array(j)
sort_array(queries, off, in, x) ==
  LET i == SliceOf(off, x)
  IN [entrylength |-> overlapDistance(queries[i], bvh[in[x].index]).entrylength,
      ray_id |-> i]

\* first loop of AccumulateRayRankIntersections: optical_distances(j)
optical_distances(queries, off, in, x) ==
  overlapDistance(queries[SliceOf(off, x)], bvh[in[x].index]).length * Kappa

\* mutant: the comparison leaves the ray out
IntersectedCellLess_ByEntry(l, r) == l.entrylength < r.entrylength

\* IntersectedCellForSorting::operator<
IntersectedCellLess(l, r) ==
  IF l.ray_id = r.ray_id THEN l.entrylength < r.entrylength ELSE l.ray_id < r.ray_id

RECURSIVE SortOrders(_, _)
\* std::sort / sortObjects over the positions S of the array keys: every
\* order the comparison allows (elements that compare equal may come out in
\* any order)
SortOrders(keys, S) ==
  IF S = {} THEN {<<>>}
  ELSE LET least == {x \in S : \A y \in S : ~IntersectedCellLess(keys[y], keys[x])}
       IN UNION {{<<x>> \o rest : rest \in SortOrders(keys, S \ {x})} :
                 x \in least}

\* the values an out-of-bounds read can yield
Garbage == {0, Inf}

\* second loop, iteration i: the bounds at which its scan over
\* [offset(i), offset(i+1)) can stop, offset(i+1) being overwritten with i by
\* the next iteration while this one runs
ScanEnds(off, i) ==
  {off[i + 1]} \cup
  (IF i < Len(off) - 1
   THEN {IF x > i THEN x ELSE i : x \in off[i]..off[i + 1]}
   ELSE {})

\* iteration i reads a position beyond the arrays of length len
ReadsOutOfBounds(off, len, i, end) == end > len \/ off[i] + 1 > len

RECURSIVE Accumulate(_, _, _, _)
\* accum_optical_length over positions from..end of the sorted order
Accumulate(dists, permutation, from, end) ==
  IF from > end THEN 0
  ELSE dists[permutation[from]] + Accumulate(dists, permutation, from + 1, end)

\* second loop, iteration i: the IntersectedRank written to out(i)
IntersectedRank(keys, dists, off, permutation, i, end, g) ==
  IF ReadsOutOfBounds(off, Len(keys), i, end)
  THEN [entrylength |-> g, optical_path_length |-> g, ray_id |-> 0]
  ELSE [entrylength |-> keys[permutation[off[i] + 1]].entrylength,
        optical_path_length |-> Accumulate(dists, permutation, off[i] + 1, end),
        ray_id |-> 0]

\* mutant: offset(n) is left as the traversal set it
ResetOffset_LastNotSet(off) ==
  [x \in 1..Len(off) |-> IF x < Len(off) THEN x - 1 ELSE off[x]]

\* second loop: offset(i) = i, and offset(n) = n
ResetOffset(off) == [x \in 1..Len(off) |-> x - 1]

RECURSIVE SecondLoop(_, _, _, _, _, _)
\* second loop, iterations 1..i: the contents it can leave in out(0..i-1)
SecondLoop(keys, dists, off, permutation, g, i) ==
  IF i = 0 THEN {<<>>}
  ELSE {Append(before, IntersectedRank(keys, dists, off, permutation, i, end, g)) :
          before \in SecondLoop(keys, dists, off, permutation, g, i - 1),
          end \in ScanEnds(off, i)}

\* AccumulateRayRankIntersections::operator()(queries, offset, in, out)
AccumulateRayRankIntersections(queries, off, in) ==
  LET n == Len(off) - 1
      keys == [x \in 1..Len(in) |-> sort_array(queries, off, in, x)]
      dists == [x \in 1..Len(in) |-> optical_distances(queries, off, in, x)]
      orders == SortOrders(keys, 1..Len(in))
  IN \/ /\ out' \in UNION {SecondLoop(keys, dists, off, permutation, g, n) :
                             permutation \in orders, g \in Garbage}
        /\ offset' = ResetOffset(off)
        /\ pc' = "done"
     \/ /\ \E i \in 1..n : \E end \in ScanEnds(off, i) :
             ReadsOutOfBounds(off, Len(in), i, end)
        /\ pc' = "crashed"
        /\ UNCHANGED <<out, offset>>

\* a post callback on nearest predicates: the indices of the pairs
SplitPairs(queries, off, in) ==
  /\ out' = [x \in 1..Len(in) |-> [index |-> in[x].index]]
  /\ pc' = "done"
  /\ UNCHANGED offset

\* mutant: the caller's output view handed over as the raw matches
PostCallbackArguments_OutAsInput ==
  [queries |-> predicates, offset |-> offset, in |-> out]

\* the arguments of callback(predicates, offset, indices, out)
PostCallbackArguments ==
  [queries |-> predicates, offset |-> offset, in |-> indices]

\* queryDispatch(..., PostCallbackTag), last statement:
\* callback(predicates, offset, indices, out)
InvokePostCallback ==
  /\ pc = "return"
  /\ UNCHANGED <<protocol_vars, sorter>>
  /\ IsPost
  /\ callback.valid
  /\ received' = Append(received, PostCallbackArguments)
  /\ trace' = Append(trace, "post_callback")
  /\ LET a == PostCallbackArguments
     IN IF tag = SpatialPredicateTag
        THEN AccumulateRayRankIntersections(a.queries, a.offset, a.in)
        ELSE SplitPairs(a.queries, a.offset, a.in)
  /\ UNCHANGED <<tag, bvh, predicates, callback, policy, indices, permute, counts, err>>

\* the callback does not fit the call it is used in
InvokeInvalidPostCallback ==
  /\ pc = "return"
  /\ UNCHANGED <<protocol_vars, sorter>>
  /\ IsPost
  /\ ~callback.valid
  /\ err' = "InvalidCallback"
  /\ pc' = "failed"
  /\ UNCHANGED <<tag, bvh, predicates, callback, policy, offset, out, indices,
                 permute, counts, trace, received>>

\* the calls a caller can make
Call ==
  /\ pc = "idle"
  /\ UNCHANGED <<protocol_vars, sorter>>
  /\ \E tree \in Trees :
       \/ \E preds \in Batches(SpatialPredicate), cb \in SpatialCallbacks,
             pol \in SpatialPolicies :
            Query(SpatialPredicateTag, tree, preds, cb, pol)
       \/ \E preds \in Batches(NearestPredicate), cb \in NearestCallbacks,
             pol \in NearestPolicies :
            Query(NearestPredicateTag, tree, preds, cb, pol)

Next ==
  \/ Call
  \/ queryDispatchPost
  \/ check_valid_callback
  \/ Allocate
  \/ SortPredicates
  \/ FirstPass
  \/ ThrowCapacityExceeded
  \/ Recount
  \/ Counted
  \/ Fits
  \/ SecondPass
  \/ Return
  \/ InvokePostCallback
  \/ InvokeInvalidPostCallback

Spec == Init /\ [][Next]_vars

\* ------------------------------------------------------------------- typing
TypeOK ==
  /\ pc \in {"idle", "post", "check", "alloc", "sort", "first_pass", "postprocess",
             "second_pass", "return", "done", "failed", "crashed"}
  /\ err \in {"none", "CapacityExceeded", "InvalidCallback"}
  /\ (pc = "failed") = (err # "none")

\* ================================================== distributed ray tracing
\* The runs of main: num_boxes boxes in a row, box b (box_id b - 1) at
\* coordinate b, and one ray a box, shot from the box towards higher
\* coordinates.  Ranks are numbered from 0 as in the code.
Worlds ==
  UNION {[num_boxes : {nb}, nranks : 1..MaxRanks,
          rays : {[b \in 1..nb |-> [lo |-> b, hi |-> h[b]]] :
                    h \in {f \in [1..nb -> 1..nb] : \A b \in 1..nb : f[b] >= b}}] :
         nb \in 1..MaxBoxes}

Ranks == 0..(world.nranks - 1)

\* num_boxes_per_rank = num_boxes / nranks
num_boxes_per_rank == world.num_boxes \div world.nranks

\* Kokkos::subview(boxes, {num_boxes_per_rank * rank, num_boxes_per_rank * (rank + 1)})
boxes_for_rank(r) ==
  [x \in 1..num_boxes_per_rank |-> num_boxes_per_rank * r + x]

\* Kokkos::subview(rays, ...): the rays shot from the boxes of the rank
rays_for_rank(r) ==
  [x \in 1..num_boxes_per_rank |-> world.rays[num_boxes_per_rank * r + x]]

\* the ranks whose bounding summary a ray intersects
Routes(ray) ==
  {g \in Ranks : /\ num_boxes_per_rank > 0
                 /\ ray.lo <= boxes_for_rank(g)[num_boxes_per_rank]
                 /\ boxes_for_rank(g)[1] <= ray.hi}

DistInit ==
  /\ NoCall
  /\ NoSort
  /\ world \in Worlds
  /\ stage = [r \in Ranks |-> "Setup"]
  /\ completed = [r \in Ranks |-> {}]
  /\ warnings = {}
  /\ network = {}
  /\ imported = [r \in Ranks |-> {}]
  /\ partial = [r \in Ranks |-> <<>>]
  /\ arrived = [r \in Ranks |-> <<>>]
  /\ offsets = [r \in Ranks |-> <<>>]
  /\ values = [r \in Ranks |-> <<>>]
  /\ merge_permutation = [r \in Ranks |-> <<>>]
  /\ applied = [r \in Ranks |-> <<>>]

\* rank r goes from stage s to stage t, s completed
Advance(r, s, t) ==
  /\ stage' = [stage EXCEPT ![r] = t]
  /\ completed' = [completed EXCEPT ![r] = @ \cup {s}]

\* MPI_Init .. the construction of the distributed tree: rank 0 warns when
\* the boxes cannot be divided evenly
Setup ==
  \E r \in Ranks :
    /\ stage[r] = "Setup"
    /\ warnings' = IF r = 0 /\ world.num_boxes % world.nranks # 0
                   THEN warnings \cup {r} ELSE warnings
    /\ Advance(r, "Setup", "Local-Route")
    /\ UNCHANGED <<world, network, imported, partial, arrived, offsets, values,
                   merge_permutation, applied, dispatch_vars, sorter>>

\* mutant: a rank waits for itself only
Barrier_Self(r, s) == s \in completed[r]

\* every rank has completed stage s
Barrier(r, s) == \A g \in Ranks : s \in completed[g]

RECURSIVE Pack(_, _, _)
\* the queries 1..x of rank r that are routed to rank g, with their index
Pack(r, g, x) ==
  IF x = 0 THEN <<>>
  ELSE Pack(r, g, x - 1)
       \o (IF g \in Routes(rays_for_rank(r)[x])
           THEN <<[query |-> rays_for_rank(r)[x], id |-> x]>> ELSE <<>>)

\* Local-Route: the queries against the tree of the ranks' bounding
\* summaries, and the packed batches handed to the transport
LocalRoute ==
  \E r \in Ranks :
    /\ stage[r] = "Local-Route"
    /\ Barrier(r, "Setup")
    /\ network' = network \cup
         {[type |-> "queries", from |-> r, to |-> g,
           batch |-> Pack(r, g, num_boxes_per_rank)] : g \in Ranks}
    /\ Advance(r, "Local-Route", "Exchange-Queries")
    /\ UNCHANGED <<world, warnings, imported, partial, arrived, offsets, values,
                   merge_permutation, applied, dispatch_vars, sorter>>

\* the ranks a rank has a message of a type from
Senders(msgs, type) == {m.from : m \in {n \in msgs : n.type = type}}

\* Exchange-Queries: one batch of foreign queries arrives
ReceiveQueries ==
  \E r \in Ranks : \E m \in network :
    /\ stage[r] = "Exchange-Queries"
    /\ m.type = "queries"
    /\ m.to = r
    /\ network' = network \ {m}
    /\ imported' = [imported EXCEPT ![r] = @ \cup {m}]
    /\ completed' =
         IF Senders(imported'[r], "queries") = Ranks
         THEN [completed EXCEPT ![r] = @ \cup {"Exchange-Queries"}]
         ELSE completed
    /\ UNCHANGED <<world, stage, warnings, partial, arrived, offsets, values,
                   merge_permutation, applied, dispatch_vars, sorter>>

\* Local-Answer begins
BeginLocalAnswer ==
  \E r \in Ranks :
    /\ stage[r] = "Exchange-Queries"
    /\ "Exchange-Queries" \in completed[r]
    /\ Barrier(r, "Exchange-Queries")
    /\ stage' = [stage EXCEPT ![r] = "Local-Answer"]
    /\ UNCHANGED <<world, completed, warnings, network, imported, partial, arrived,
                   offsets, values, merge_permutation, applied, dispatch_vars,
                   sorter>>

RECURSIVE Foreign(_, _)
\* the foreign queries of rank r that came from ranks 0..g, in rank order
Foreign(r, g) ==
  IF g < 0 THEN <<>>
  ELSE LET m == CHOOSE n \in imported[r] : n.type = "queries" /\ n.from = g
       IN Foreign(r, g - 1)
          \o [x \in 1..Len(m.batch) |->
                [query |-> m.batch[x].query, id |-> m.batch[x].id, from |-> g]]

\* the offsets of the raw table of queries against the boxes part
RawOffset(part, queries) ==
  exclusivePrefixSum([i \in 1..(Len(queries) + 1) |->
                        IF i <= Len(queries)
                        THEN Cardinality(Intersected(part, queries[i])) ELSE 0])

RECURSIVE RawIndices(_, _, _)
\* the indices of the raw table of queries 1..i against the boxes part
RawIndices(part, queries, i) ==
  IF i = 0 THEN <<>>
  ELSE LET v == SetToSeq(Intersected(part, queries[i]))
       IN RawIndices(part, queries, i - 1) \o [x \in 1..Len(v) |-> [index |-> v[x]]]

\* the post dispatch of queries against the boxes part with the callback
\* AccumulateRayRankIntersections{part, rank}: the contents it can leave in out
Answers(part, queries) ==
  LET off == RawOffset(part, queries)
      in == RawIndices(part, queries, Len(queries))
      keys == [x \in 1..Len(in) |->
                 [entrylength |->
                    overlapDistance(queries[SliceOf(off, x)], part[in[x].index]).entrylength,
                  ray_id |-> SliceOf(off, x)]]
      dists == [x \in 1..Len(in) |->
                  overlapDistance(queries[SliceOf(off, x)], part[in[x].index]).length
                    * Kappa]
  IN UNION {SecondLoop(keys, dists, off, permutation, g, Len(queries)) :
              permutation \in SortOrders(keys, 1..Len(in)), g \in Garbage}

\* Local-Answer: the foreign queries against the rank's own boxes
LocalAnswer ==
  \E r \in Ranks :
    /\ stage[r] = "Local-Answer"
    /\ "Local-Answer" \notin completed[r]
    /\ LET foreign == Foreign(r, world.nranks - 1)
       IN partial' \in {[partial EXCEPT ![r] = a] :
                          a \in Answers(boxes_for_rank(r),
                                        [x \in 1..Len(foreign) |-> foreign[x].query])}
    /\ completed' = [completed EXCEPT ![r] = @ \cup {"Local-Answer"}]
    /\ UNCHANGED <<world, stage, warnings, network, imported, arrived, offsets,
                   values, merge_permutation, applied, dispatch_vars, sorter>>

RECURSIVE Results(_, _, _)
\* the partial results of rank r for its foreign queries 1..x that came from
\* rank g, each with the index the query has on rank g
Results(r, g, x) ==
  IF x = 0 THEN <<>>
  ELSE LET foreign == Foreign(r, world.nranks - 1)
       IN Results(r, g, x - 1)
          \o (IF foreign[x].from = g
              THEN <<[id |-> foreign[x].id, value |-> partial[r][x]]>> ELSE <<>>)

\* Return-Results begins: the partial results go back to the ranks the
\* queries came from
BeginReturnResults ==
  \E r \in Ranks :
    /\ stage[r] = "Local-Answer"
    /\ "Local-Answer" \in completed[r]
    /\ Barrier(r, "Local-Answer")
    /\ network' = network \cup
         {[type |-> "results", from |-> r, to |-> g,
           batch |-> Results(r, g, Len(partial[r]))] : g \in Ranks}
    /\ stage' = [stage EXCEPT ![r] = "Return-Results"]
    /\ UNCHANGED <<world, completed, warnings, imported, partial, arrived, offsets,
                   values, merge_permutation, applied, dispatch_vars, sorter>>

\* Return-Results: the partial results of one rank arrive; from tells the
\* rank a partial result came from and is no field of IntersectedRank
ReceiveResults ==
  \E r \in Ranks : \E m \in network :
    /\ stage[r] = "Return-Results"
    /\ m.type = "results"
    /\ m.to = r
    /\ network' = network \ {m}
    /\ imported' = [imported EXCEPT ![r] = @ \cup {m}]
    /\ arrived' = [arrived EXCEPT ![r] =
                     @ \o [x \in 1..Len(m.batch) |->
                             [id |-> m.batch[x].id,
                              value |-> [entrylength |-> m.batch[x].value.entrylength,
                                         optical_path_length |->
                                           m.batch[x].value.optical_path_length,
                                         ray_id |-> m.batch[x].value.ray_id,
                                         from |-> m.from]]]]
    /\ completed' =
         IF Senders(imported'[r], "results") = Ranks
         THEN [completed EXCEPT ![r] = @ \cup {"Return-Results"}]
         ELSE completed
    /\ UNCHANGED <<world, stage, warnings, partial, offsets, values,
                   merge_permutation, applied, dispatch_vars, sorter>>

RECURSIVE Returned(_, _, _)
\* the partial results among the first x arrived that belong to query i, in
\* the order of their arrival
Returned(arr, i, x) ==
  IF x = 0 THEN <<>>
  ELSE Returned(arr, i, x - 1) \o (IF arr[x].id = i THEN <<arr[x].value>> ELSE <<>>)

RECURSIVE Gathered(_, _)
\* the values view of the distributed query: the partial results of queries
\* 1..i, query after query
Gathered(arr, i) ==
  IF i = 0 THEN <<>> ELSE Gathered(arr, i - 1) \o Returned(arr, i, Len(arr))

\* Merge begins: distributed_bvh.query returns (values, offsets) on the rank
BeginMerge ==
  \E r \in Ranks :
    /\ stage[r] = "Return-Results"
    /\ "Return-Results" \in completed[r]
    /\ offsets' = [offsets EXCEPT ![r] =
                     exclusivePrefixSum(
                       [i \in 1..(num_boxes_per_rank + 1) |->
                          IF i <= num_boxes_per_rank
                          THEN Len(Returned(arrived[r], i, Len(arrived[r]))) ELSE 0])]
    /\ values' = [values EXCEPT ![r] = Gathered(arrived[r], num_boxes_per_rank)]
    /\ stage' = [stage EXCEPT ![r] = "Merge"]
    /\ UNCHANGED <<world, completed, warnings, network, imported, partial, arrived,
                   merge_permutation, applied, dispatch_vars, sorter>>

\* mutant: the labels are left as the ranks returned them
ApplyRayIds_Skipped(off, vals) == vals

\* "Applying ray IDs": values(j).ray_id = i for j in [offsets(i), offsets(i+1))
ApplyRayIds(off, vals) ==
  [j \in 1..Len(vals) |-> [vals[j] EXCEPT !.ray_id = SliceOf(off, j) - 1]]

\* Merge: the ray ids of the originating rank are applied
ApplyingRayIds ==
  \E r \in Ranks :
    /\ stage[r] = "Merge"
    /\ "ApplyRayIds" \notin completed[r]
    /\ values' = [values EXCEPT ![r] = ApplyRayIds(offsets[r], values[r])]
    /\ completed' = [completed EXCEPT ![r] = @ \cup {"ApplyRayIds"}]
    /\ UNCHANGED <<world, stage, warnings, network, imported, partial, arrived,
                   offsets, merge_permutation, applied, dispatch_vars, sorter>>

\* Merge: "Sorting ranks by intersection length", IntersectedRankForSorting's
\* operator< being the comparison of IntersectedCellForSorting
SortingRanks ==
  \E r \in Ranks :
    /\ stage[r] = "Merge"
    /\ "ApplyRayIds" \in completed[r]
    /\ "Sort" \notin completed[r]
    /\ \E permutation \in SortOrders(values[r], 1..Len(values[r])) :
         merge_permutation' = [merge_permutation EXCEPT ![r] = permutation]
    /\ completed' = [completed EXCEPT ![r] = @ \cup {"Sort"}]
    /\ UNCHANGED <<world, stage, warnings, network, imported, partial, arrived,
                   offsets, values, applied, dispatch_vars, sorter>>

\* mutant: the accumulation reads values(j)
Visit_Unsorted(vals, permutation, j) == vals[j]

\* the partial result the accumulation reads at j: values(permutation(j))
Visit(vals, permutation, j) == vals[permutation[j]]

\* Merge: "Evaluating ray intensities", the partial results of each ray
\* visited in the order of the sort
EvaluatingRayIntensities ==
  \E r \in Ranks :
    /\ stage[r] = "Merge"
    /\ "Sort" \in completed[r]
    /\ applied' = [applied EXCEPT ![r] =
                     [i \in 1..num_boxes_per_rank |->
                        [x \in 1..(offsets[r][i + 1] - offsets[r][i]) |->
                           Visit(values[r], merge_permutation[r], offsets[r][i] + x)]]]
    /\ Advance(r, "Merge", "Done")
    /\ UNCHANGED <<world, warnings, network, imported, partial, arrived, offsets,
                   values, merge_permutation, dispatch_vars, sorter>>

DistNext ==
  \/ Setup
  \/ LocalRoute
  \/ ReceiveQueries
  \/ BeginLocalAnswer
  \/ LocalAnswer
  \/ BeginReturnResults
  \/ ReceiveResults
  \/ BeginMerge
  \/ ApplyingRayIds
  \/ SortingRanks
  \/ EvaluatingRayIntensities

DistSpec == DistInit /\ [][DistNext]_vars

\* ====================================================== the sort of a table
\* the offsets of the CSR tables of at most MaxQueries slices and MaxSorted
\* entries
CsrOffsets ==
  {off \in UNION {[1..(n + 1) -> 0..MaxSorted] : n \in 0..MaxQueries} :
     off[1] = 0 /\ \A i \in 1..(Len(off) - 1) : off[i] <= off[i + 1]}

\* the tables: offsets, and the entry distance of every entry
SortInit ==
  /\ NoCall
  /\ NoRun
  /\ sorter \in UNION {[phase : {"table"}, offset : {off},
                        entrylength : [1..lastElement(off) -> 0..MaxCoord]] :
                       off \in CsrOffsets}

\* the post callback's first loop: sort_array(j) = {entrylength, i} for j in
\* [offset(i), offset(i+1))
FillSortArray ==
  /\ sorter.phase = "table"
  /\ sorter' = [phase |-> "keys", offset |-> sorter.offset, from |-> "in",
                sort_array |->
                  [j \in 1..Len(sorter.entrylength) |->
                     [entrylength |-> sorter.entrylength[j],
                      ray_id |-> SliceOf(sorter.offset, j)]]]
  /\ UNCHANGED <<dispatch_vars, protocol_vars>>

\* the originating rank: the values come back with ray_id 0, the ray ids are
\* applied and sort_array(i) = values(i)
CopySortArray ==
  /\ sorter.phase = "table"
  /\ sorter' = [phase |-> "keys", offset |-> sorter.offset, from |-> "values",
                sort_array |->
                  ApplyRayIds(sorter.offset,
                              [j \in 1..Len(sorter.entrylength) |->
                                 [entrylength |-> sorter.entrylength[j], ray_id |-> 0]])]
  /\ UNCHANGED <<dispatch_vars, protocol_vars>>

\* sortObjects / std::sort of the indices by sort_array
SortObjects ==
  /\ sorter.phase = "keys"
  /\ \E permutation \in SortOrders(sorter.sort_array, 1..Len(sorter.sort_array)) :
       sorter' = [phase |-> "sorted", offset |-> sorter.offset, from |-> sorter.from,
                  sort_array |-> sorter.sort_array, permutation |-> permutation]
  /\ UNCHANGED <<dispatch_vars, protocol_vars>>

SortNext ==
  \/ FillSortArray
  \/ CopySortArray
  \/ SortObjects

SortSpec == SortInit /\ [][SortNext]_vars

\* =================================================================== claims
\* (offsets, values) is a CSR table over n queries
WellFormed(off, vals) ==
  /\ Len(off) = n_queries + 1
  /\ off[1] = 0
  /\ \A i \in 1..n_queries : off[i] <= off[i + 1]
  /\ off[n_queries + 1] = Len(vals)

\* the values of query i in a table
Slice(off, vals, i) == {vals[x] : x \in (off[i] + 1)..off[i + 1]}

\* the primitives query i intersects
Matches(i) == Intersected(bvh, predicates[i])

\* some query intersects more than k primitives
Overfull(k) == \E i \in 1..n_queries : Cardinality(Matches(i)) > k

\* the call runs the inline dispatch with a callback that fits
RunsInline == pc # "idle" /\ Inner.valid

\* C1: when the inline dispatch returns (pc = "return") and when the whole
\* call has returned (pc = "done", after the post callback if there is one),
\* the table has n_queries + 1 offsets, starts at 0, is non-decreasing and
\* ends at the length of the values.
C1_CsrWellFormed ==
  /\ pc = "return" => WellFormed(offset, Target)
  /\ pc = "done" => WellFormed(offset, out)

\* C1 witness: the aggregating post callback has rewritten the offsets of a
\* two-query raw table with more than two matches
C1_Witness ==
  /\ pc = "done"
  /\ IsPost
  /\ tag = SpatialPredicateTag
  /\ n_queries = 2
  /\ Len(indices) > 2
  /\ offset # received[1].offset

\* C2: a spatial call never ends in CapacityExceeded when buffer_size >= 0;
\* with an inline callback, buffer_size = +k and a query intersecting more
\* than k primitives, the returned table was built by the counting pass and
\* the writing pass and holds, for every query, exactly its matches.
C2_PositiveBufferFallsBack ==
  /\ (tag = SpatialPredicateTag /\ policy._buffer_size >= 0) => err # "CapacityExceeded"
  /\ (/\ pc = "done"
      /\ tag = SpatialPredicateTag
      /\ ~IsPost
      /\ policy._buffer_size > 0
      /\ Overfull(policy._buffer_size))
     => /\ SubSeq(trace, Len(trace) - 2, Len(trace))
             = <<"traverse_optimistic", "traverse_count", "traverse_write">>
        /\ WellFormed(offset, out)
        /\ \A i \in 1..n_queries :
             /\ {v.cell_id : v \in Slice(offset, out, i)} = Matches(i)
             /\ offset[i + 1] - offset[i] = Cardinality(Matches(i))

\* C2 witness: buffer_size = +1, a query with 2 matches, the call returned
C2_Witness ==
  /\ pc = "done"
  /\ tag = SpatialPredicateTag
  /\ ~IsPost
  /\ policy._buffer_size = 1
  /\ \E i \in 1..n_queries : Cardinality(Matches(i)) = 2
  /\ Len(out) >= 2

\* C3: with buffer_size = -k and a query intersecting more than k primitives
\* the spatial inline dispatch gets no further than the failed attempt: it
\* never counts again, never writes a second time, never returns, and the
\* failure is CapacityExceeded; with buffer_size >= 0 no call ends in
\* CapacityExceeded.
C3_NegativeBufferFails ==
  /\ (/\ RunsInline
      /\ tag = SpatialPredicateTag
      /\ policy._buffer_size < 0
      /\ Overfull(-policy._buffer_size))
     => /\ pc \notin {"second_pass", "return", "done", "crashed"}
        /\ "traverse_count" \notin Range(trace)
        /\ "traverse_write" \notin Range(trace)
        /\ pc = "failed" => err = "CapacityExceeded"
  /\ policy._buffer_size >= 0 => err # "CapacityExceeded"

\* C3 witness: buffer_size = -1, a query with 2 matches, the call failed
C3_Witness ==
  /\ pc = "failed"
  /\ err = "CapacityExceeded"
  /\ tag = SpatialPredicateTag
  /\ ~IsPost
  /\ policy._buffer_size = -1
  /\ \E i \in 1..n_queries : Cardinality(Matches(i)) = 2

\* C4: a call that ended in CapacityExceeded leaves the caller's offsets and
\* values as they were before the call (both views are empty before it).
C4_NoPartialOutput ==
  err = "CapacityExceeded" => (offset = <<>> /\ out = <<>>)

\* the offsets of the exact table of a spatial batch
RefOffset ==
  exclusivePrefixSum([i \in 1..(n_queries + 1) |->
                        IF i <= n_queries THEN Cardinality(Matches(i)) ELSE 0])

\* the values query i has in the exact table of a spatial batch
RefSlice(i) == {Insert(Inner, bvh, Get(predicates, i), p) : p \in Matches(i)}

\* the table the inline dispatch returns is the exact table
ExactTable ==
  /\ offset = RefOffset
  /\ Len(Target) = RefOffset[n_queries + 1]
  /\ \A i \in 1..n_queries : Slice(offset, Target, i) = RefSlice(i)

\* C5: when no query intersects more than |buffer_size| primitives (or
\* buffer_size is 0) a spatial inline dispatch does not fail, and the table
\* it returns is the exact one whatever the buffer_size: offsets are the
\* prefix sums of the match counts (not multiples of k), values has their
\* total length, and slice i holds the results of query i.
C5_BufferSizesAgree ==
  (/\ RunsInline
   /\ tag = SpatialPredicateTag
   /\ (policy._buffer_size = 0 \/ ~Overfull(abs(policy._buffer_size))))
  => /\ err # "CapacityExceeded"
     /\ pc = "return" => ExactTable

\* C5 witness: buffer_size = -1 returned, two queries, the first with no
\* match, so that the tentative offsets were replaced
C5_Witness ==
  /\ pc = "return"
  /\ tag = SpatialPredicateTag
  /\ policy._buffer_size = -1
  /\ n_queries = 2
  /\ Cardinality(Matches(1)) = 0
  /\ Cardinality(Matches(2)) = 1
  /\ offset # SpatialOffset(2, 1)
  /\ "compress" \in Range(trace)

\* C6: a spatial inline dispatch that returns, sorted or not, returns for
\* every original index i the results of query i in slice i; when it sorted,
\* the view's permutation is a bijection of the indices with the added entry
\* a fixed point.
C6_SortKeepsSlices ==
  (pc = "return" /\ tag = SpatialPredicateTag)
  => /\ \A i \in 1..n_queries : Slice(offset, Target, i) = RefSlice(i)
     /\ offset = RefOffset
     /\ policy._sort_predicates
        => /\ Len(permute) = n_queries + 1
           /\ Range(permute) = 1..(n_queries + 1)
           /\ permute[n_queries + 1] = n_queries + 1

\* C6 witness: a sorted dispatch returned whose permutation swaps two queries
\* with different, non-empty results
C6_Witness ==
  /\ pc = "return"
  /\ tag = SpatialPredicateTag
  /\ ~IsPost
  /\ policy._sort_predicates
  /\ n_queries = 2
  /\ permute = <<2, 1, 3>>
  /\ Matches(1) # Matches(2)
  /\ Matches(1) # {}
  /\ Matches(2) # {}

Min(a, b) == IF a < b THEN a ELSE b

\* the primitives in slice i of the table of the inline dispatch
SliceIndices(i) == {v.index : v \in Slice(offset, Target, i)}

\* C7: a nearest dispatch does not fail, and when it returns query i has
\* min(k_i, m) results, m the number of primitives of the tree; a query
\* asking for more than m gets every primitive once.
C7_FewerThanK ==
  tag = NearestPredicateTag
  => /\ err # "CapacityExceeded"
     /\ pc = "return"
        => \A i \in 1..n_queries :
             /\ offset[i + 1] - offset[i] = Min(predicates[i].k, Len(bvh))
             /\ predicates[i].k > Len(bvh) => SliceIndices(i) = 1..Len(bvh)

\* C7 witness: a query asking for 2 neighbours of a tree of 1 primitive
C7_Witness ==
  /\ pc = "return"
  /\ tag = NearestPredicateTag
  /\ Len(bvh) = 1
  /\ n_queries = 2
  /\ predicates[1].k = 2
  /\ offset = <<0, 1, 2>>

CompleteRawTable(a) ==
  /\ Len(a.offset) = n_queries + 1
  /\ a.offset[1] = 0
  /\ a.offset[n_queries + 1] = Len(a.in)
  /\ \A i \in 1..n_queries :
       LET S == {v.index : v \in Slice(a.offset, a.in, i)}
       IN /\ a.offset[i] <= a.offset[i + 1]
          /\ Cardinality(S) = a.offset[i + 1] - a.offset[i]
          /\ IF tag = SpatialPredicateTag
             THEN S = Matches(i)
             ELSE /\ Cardinality(S) = Min(predicates[i].k, Len(bvh))
                  /\ \A p \in S, r \in (1..Len(bvh)) \ S :
                       distance(predicates[i].q, bvh[r]) >= distance(predicates[i].q, bvh[p])

\* C10: the post callback is invoked at most once, never in an inline call
\* and never in a call that failed; a post dispatch that ran to its end
\* invoked it once; the invocation is the last piece of work of the call and
\* its arguments are the caller's predicates and the complete raw table.
C10_PostCallbackOnce ==
  /\ Len(received) <= 1
  /\ ~IsPost => received = <<>>
  /\ err # "none" => received = <<>>
  /\ (IsPost /\ pc \in {"done", "crashed"}) => Len(received) = 1
  /\ received # <<>>
     => /\ pc \in {"done", "crashed"}
        /\ trace[Len(trace)] = "post_callback"
        /\ \A x \in 1..(Len(trace) - 1) : trace[x] # "post_callback"
        /\ received[1].queries = predicates
        /\ CompleteRawTable(received[1])

\* C10 witness: a post dispatch whose optimistic attempt overflowed and was
\* retried has invoked the callback
C10_Witness ==
  /\ pc = "done"
  /\ IsPost
  /\ tag = SpatialPredicateTag
  /\ policy._buffer_size = 1
  /\ Overfull(1)
  /\ Len(received) = 1
  /\ "traverse_write" \in Range(trace)

\* the raw table of a spatial post dispatch has been handed to the
\* aggregating callback, which returned
Aggregated ==
  /\ pc = "done"
  /\ IsPost
  /\ tag = SpatialPredicateTag
  /\ received # <<>>

\* the number of raw matches in slice i of the table the callback received
RawCount(i) == received[1].offset[i + 1] - received[1].offset[i]

\* C14: whatever the interleaving of the iterations of the second loop, the
\* callback leaves offsets 0..n and one partial result per query, and the
\* optical length of a query with matches is accumulated over exactly the
\* matches of its own slice.
C14_InterleavingIndependent ==
  Aggregated
  => /\ offset = [x \in 1..(n_queries + 1) |-> x - 1]
     /\ Len(out) = n_queries
     /\ \A i \in 1..n_queries :
          RawCount(i) > 0 => out[i].optical_path_length = Kappa * RawCount(i)

\* the positions of the output view the traversal of predicate p writes in
\* one pass
WrittenBy(off, p, bounded) ==
  LET oi == OffsetIndex(p)
      cap == IF bounded THEN Capacity(off, p) ELSE Len(Values(p))
  IN {off[oi] + x : x \in 1..Min(Len(Values(p)), cap)}

\* the slice of the output view the offsets give predicate p
OwnSlice(off, p) == (off[OffsetIndex(p)] + 1)..off[OffsetIndex(p) + 1]

\* the writes of one pass stay in the writers' own slices and inside the
\* view, and no position is written by two predicates
Confined(off, bounded) ==
  /\ \A p \in 1..n_queries :
       /\ WrittenBy(off, p, bounded) \subseteq OwnSlice(off, p)
       /\ WrittenBy(off, p, bounded) \subseteq 1..Len(Target)
  /\ \A p, q \in 1..n_queries :
       p # q => WrittenBy(off, p, bounded) \cap WrittenBy(off, q, bounded) = {}

\* C15: in the optimistic pass the writes of predicate p stay inside its
\* preallocated slots (for a spatial batch, slots i*k .. i*k+k-1 of original
\* index i), in the writing pass inside its final slice; no position is
\* written by two predicates in either pass, also through the permuted view;
\* the writing pass writes every position of the final view.
C15_WritesConfined ==
  /\ (pc = "first_pass" /\ BufferArgument # 0)
     => /\ Confined(offset, TRUE)
        /\ tag = SpatialPredicateTag
           => \A p \in 1..n_queries :
                OwnSlice(offset, p) =
                  ((OffsetIndex(p) - 1) * abs(policy._buffer_size) + 1)
                    ..(OffsetIndex(p) * abs(policy._buffer_size))
  /\ pc = "second_pass"
     => /\ Confined(offset, FALSE)
        /\ UNION {WrittenBy(offset, p, FALSE) : p \in 1..n_queries} = 1..Len(Target)
  /\ (pc = "return" /\ trace # <<>> /\ trace[Len(trace)] = "traverse_write")
     => \A x \in 1..Len(Target) : Target[x] # Uninit

\* C15 witness: the writing pass of a sorted batch whose permutation swaps
\* two queries with different numbers of results
C15_Witness ==
  /\ pc = "second_pass"
  /\ tag = SpatialPredicateTag
  /\ n_queries = 2
  /\ permute = <<2, 1, 3>>
  /\ Cardinality(Matches(1)) = 2
  /\ Cardinality(Matches(2)) = 1
  /\ "traverse_optimistic" \in Range(trace)

\* C16: a dispatch whose policy asks for sorted predicates has, once past the
\* sorting step, computed the permutation and wrapped the offsets in it, for
\* nearest predicates as for spatial ones.
C16_SortWheneverEnabled ==
  (/\ RunsInline
   /\ pc \in {"first_pass", "postprocess", "second_pass", "return", "done"}
   /\ policy._sort_predicates)
  => /\ "sort" \in Range(trace)
     /\ Len(permute) = n_queries + 1

\* the smallest entry distance among the raw matches of query i
FirstEntry(i) ==
  LET a == received[1]
      E == {overlapDistance(a.queries[i], bvh[a.in[x].index]).entrylength :
              x \in (a.offset[i] + 1)..a.offset[i + 1]}
  IN CHOOSE e \in E : \A f \in E : e <= f

\* C18: the callback reads no position outside the arrays, and the ordering
\* key it writes for query i is the smallest entry distance among the matches
\* of query i, or infinity when query i has no match.
C18_ReadsInsideSlice ==
  /\ pc # "crashed"
  /\ Aggregated
     => \A i \in 1..n_queries :
          out[i].entrylength = IF RawCount(i) = 0 THEN Inf ELSE FirstEntry(i)

\* the positions of slice i of a table with offsets off
Positions(off, i) == (off[i] + 1)..off[i + 1]

\* the distance at which a ray enters the boxes of rank g
EntryInto(ray, g) ==
  LET E == {overlapDistance(ray, boxes_for_rank(g)[p]).entrylength :
              p \in Intersected(boxes_for_rank(g), ray)}
  IN CHOOSE e \in E : \A f \in E : e <= f

AllReturned(r) ==
  /\ \A m \in network : ~(m.type = "results" /\ m.to = r)
  /\ \A i \in 1..num_boxes_per_rank : \A g \in Routes(rays_for_rank(r)[i]) :
       \E x \in 1..Len(arrived[r]) : arrived[r][x].id = i /\ arrived[r][x].value.from = g

\* C12: a rank is in Local-Answer or beyond only when every rank has
\* completed Exchange-Queries, in Return-Results or beyond only when every
\* rank has completed Local-Answer, and in Merge or beyond only when every
\* partial result for its queries has been returned.
C12_StagesOrdered ==
  \A r \in Ranks :
    /\ stage[r] \in {"Local-Answer", "Return-Results", "Merge", "Done"}
       => \A g \in Ranks : "Exchange-Queries" \in completed[g]
    /\ stage[r] \in {"Return-Results", "Merge", "Done"}
       => \A g \in Ranks : "Local-Answer" \in completed[g]
    /\ stage[r] \in {"Merge", "Done"} => AllReturned(r)

\* C12 witness: rank 0 has completed Local-Answer and waits for rank 1, which
\* holds a batch of rank 0's queries and has not begun it
C12_Witness ==
  /\ world.nranks = 2
  /\ stage[0] = "Local-Answer"
  /\ "Local-Answer" \in completed[0]
  /\ stage[1] = "Exchange-Queries"
  /\ \E m \in imported[1] : m.from = 0 /\ m.batch # <<>>

\* C13: a run of all ranks to the end has given every box to exactly one
\* rank, and only rank 0 has warned.
C13_PartitionCoversAll ==
  (world.nranks > 0 /\ \A r \in Ranks : stage[r] = "Done")
  => /\ warnings \subseteq {0}
     /\ \A r, g \in Ranks :
          r # g => Range(boxes_for_rank(r)) \cap Range(boxes_for_rank(g)) = {}
     /\ UNION {Range(boxes_for_rank(r)) : r \in Ranks} = 1..world.num_boxes

\* C17: every partial result leaves the rank that computed it with label 0,
\* and once a rank has sorted, every value of slice i carries the index of
\* query i (i - 1, counted from 0) and the permutation of the sort maps the
\* positions of slice i into slice i.
C17_LabelsBeforeSort ==
  /\ \A m \in network :
       m.type = "results" => \A x \in 1..Len(m.batch) : m.batch[x].value.ray_id = 0
  /\ \A r \in Ranks :
       /\ \A x \in 1..Len(partial[r]) : partial[r][x].ray_id = 0
       /\ "Sort" \in completed[r]
          => \A i \in 1..num_boxes_per_rank : \A j \in Positions(offsets[r], i) :
               /\ values[r][j].ray_id = i - 1
               /\ merge_permutation[r][j] \in Positions(offsets[r], i)

\* C17 witness: a rank with two queries has sorted, the raw values of the
\* second query having come back with label 0
C17_Witness ==
  \E r \in Ranks :
    /\ "Sort" \in completed[r]
    /\ num_boxes_per_rank >= 2
    /\ Positions(offsets[r], 2) # {}
    /\ \A j \in Positions(offsets[r], 2) :
         /\ values[r][j].ray_id = 1
         /\ \E x \in 1..Len(arrived[r]) :
              arrived[r][x].id = 2 /\ arrived[r][x].value.ray_id = 0

\* C19: the permutation of a sort of the whole table maps the positions of
\* every slice onto the slice, one to one, and within a slice the entry
\* distance does not decrease along the sorted order, whichever order the
\* sort leaves equal keys in, for the keys of the post callback and for the
\* keys of the originating rank.
C19_PermutationKeepsSlices ==
  sorter.phase = "sorted"
  => /\ Len(sorter.permutation) = Len(sorter.sort_array)
     /\ \A i \in 1..(Len(sorter.offset) - 1) :
          LET S == Positions(sorter.offset, i)
          IN /\ {sorter.permutation[j] : j \in S} = S
             /\ \A j \in S :
                  j + 1 \in S
                  => sorter.sort_array[sorter.permutation[j]].entrylength
                       <= sorter.sort_array[sorter.permutation[j + 1]].entrylength

\* C19 witness: the sort of the originating rank has swapped two entries of
\* equal entry distance in the first of two slices
C19_Witness ==
  /\ sorter.phase = "sorted"
  /\ sorter.from = "values"
  /\ sorter.offset = <<0, 2, 3>>
  /\ sorter.sort_array[1].entrylength = sorter.sort_array[2].entrylength
  /\ sorter.sort_array[3].entrylength < sorter.sort_array[1].entrylength
  /\ sorter.permutation = <<2, 1, 3>>

====
